---- MODULE Spec2Model ----
(***************************************************************************)
(* A model of rust-tls-api: the certificate / key materials of             *)
(* api/src/cert.rs and the rustls connector, acceptor and builder of       *)
(* impl-rustls/src/lib.rs.                                                  *)
(*                                                                         *)
(* SpecPem  runs the DER / PEM functions of cert.rs on bounded inputs.     *)
(* Spec     runs a connector builder, build(), connect / accept and the    *)
(*          polling of the future they return.                             *)
(***************************************************************************)
EXTENDS Integers, Sequences, FiniteSets, TLC

VARIABLES
    \* ---- cert.rs ----
    buf,        \* the PEM buffer the *_from_pem functions are given
    der,        \* the DER bytes the *_from_der functions are given
    res,        \* the value the last cert.rs function returned
    op,         \* the last cert.rs function called
    src,        \* what buf holds: the caller's input, or the value to_pem encoded
    \* ---- lib.rs: TlsConnectorBuilder / TlsConnector ----
    phase,              \* "builder": the TlsConnectorBuilder lives; "connector": build() consumed it
    config,             \* rustls::ClientConfig: alpn_protocols, verifier, root_store
    verify_hostname,    \* TlsConnectorBuilder::verify_hostname
    disabled,           \* history: set_verify_hostname(false) was called on this builder
    added,              \* history: the certificates add_root_certificate added
    call,               \* history: the last builder call and its Result
    acceptor,           \* "builder": the TlsAcceptorBuilder lives; "acceptor": built
    \* ---- lib.rs: the future connect / accept return ----
    fut,        \* the future's state
    session,    \* the rustls session of the TlsStream
    bridge,     \* the AsyncIoAsSyncIo around the caller's transport
    polls,      \* how many times the future was polled
    out,        \* what the last poll returned
    step,       \* what the engine's handshake step reported in the last poll
    req         \* history: the connect / accept call that made the future

pemVars == <<buf, der, res, op, src>>
builderVars == <<phase, config, verify_hostname, disabled, added, call, acceptor>>
futVars == <<fut, session, bridge, polls, out, step, req>>

vars == <<buf, der, res, op, src,
          phase, config, verify_hostname, disabled, added, call, acceptor,
          fut, session, bridge, polls, out, step, req>>

(***************************************************************************)
(* Bounds of the model.                                                    *)
(***************************************************************************)
MaxItems == 3        \* PEM blocks / stray bytes in an input buffer
MaxDerLen == 3       \* bytes in a DER input
MaxRoots == 2        \* certificates added to one builder's trust store
MaxDomainLen == 2    \* characters in a domain given to connect
MaxDelay == 3        \* scheduler turns a transport stays not ready

(***************************************************************************)
(* Bytes.  0x30 is the ASN.1 SEQUENCE tag looks_like_der tests for.        *)
(***************************************************************************)
SEQUENCE_TAG == 48                       \* b"\x30"
ByteVals == {SEQUENCE_TAG, 2, 255}       \* SEQUENCE, INTEGER, 0xFF

DerInputs == UNION {[1..n -> ByteVals] : n \in 0..MaxDerLen}

(***************************************************************************)
(* crate::Result<T>                                                        *)
(***************************************************************************)
Ok(v) == [ok |-> TRUE, val |-> v, err |-> ""]
Err(m) == [ok |-> FALSE, val |-> <<>>, err |-> m]

(***************************************************************************)
(* The pem crate.  A buffer is a sequence of items: a framed block         *)
(*   -----BEGIN <begin>-----  <data>  -----END <end>-----                  *)
(* whose data is base64 text (sextets 0..63 and the pad character), or a   *)
(* byte outside any block.                                                 *)
(***************************************************************************)
Pad == 64

RECURSIVE base64_encode(_)
base64_encode(bytes) ==
    IF Len(bytes) = 0 THEN <<>>
    ELSE IF Len(bytes) = 1 THEN
        <<bytes[1] \div 4, (bytes[1] % 4) * 16, Pad, Pad>>
    ELSE IF Len(bytes) = 2 THEN
        <<bytes[1] \div 4,
          (bytes[1] % 4) * 16 + bytes[2] \div 16,
          (bytes[2] % 16) * 4,
          Pad>>
    ELSE
        <<bytes[1] \div 4,
          (bytes[1] % 4) * 16 + bytes[2] \div 16,
          (bytes[2] % 16) * 4 + bytes[3] \div 64,
          bytes[3] % 64>> \o base64_encode(SubSeq(bytes, 4, Len(bytes)))

RECURSIVE base64_decode(_)
base64_decode(chars) ==
    IF Len(chars) = 0 THEN Ok(<<>>)
    ELSE IF Len(chars) < 4 THEN Err("InvalidData")
    ELSE IF chars[1] = Pad \/ chars[2] = Pad THEN Err("InvalidData")
    ELSE IF chars[3] = Pad THEN
        IF chars[4] = Pad /\ Len(chars) = 4 /\ chars[2] % 16 = 0
        THEN Ok(<<chars[1] * 4 + chars[2] \div 16>>)
        ELSE Err("InvalidData")
    ELSE IF chars[4] = Pad THEN
        IF Len(chars) = 4 /\ chars[3] % 4 = 0
        THEN Ok(<<chars[1] * 4 + chars[2] \div 16,
                  (chars[2] % 16) * 16 + chars[3] \div 4>>)
        ELSE Err("InvalidData")
    ELSE
        LET rest == base64_decode(SubSeq(chars, 5, Len(chars)))
        IN  IF rest.ok
            THEN Ok(<<chars[1] * 4 + chars[2] \div 16,
                      (chars[2] % 16) * 16 + chars[3] \div 4,
                      (chars[3] % 4) * 64 + chars[4]>> \o rest.val)
            ELSE rest

Block(begin, end, data) ==
    [kind |-> "block", begin |-> begin, end |-> end, data |-> data, byte |-> 0]
Raw(b) ==
    [kind |-> "raw", begin |-> "", end |-> "", data |-> <<>>, byte |-> b]

Pem(tag, contents) == [tag |-> tag, contents |-> contents]

\* pem::encode: the framing lines around the base64 of the contents.
pem_encode(p) == <<Block(p.tag, p.tag, base64_encode(p.contents))>>

\* Pem::new_from_captures: both tags present and equal, the data decodes.
BlockParses(item) ==
    /\ item.kind = "block"
    /\ item.begin # ""
    /\ item.end # ""
    /\ item.begin = item.end
    /\ base64_decode(item.data).ok

\* pem::parse_many: every block of the buffer that parses, in order; a block
\* that does not parse is dropped, bytes outside the blocks are skipped.
parse_many(buffer) ==
    LET good == SelectSeq(buffer, BlockParses)
    IN  [i \in 1..Len(good) |-> Pem(good[i].begin, base64_decode(good[i].data).val)]

\* The bytes a buffer starts with ('-' opens a framing line).
as_ref(buffer) ==
    IF buffer = <<>> THEN <<>>
    ELSE IF buffer[1].kind = "raw" THEN <<buffer[1].byte>>
    ELSE <<45>>

(***************************************************************************)
(* The inputs: buffers of at most MaxItems items.                          *)
(***************************************************************************)
CertDer == <<SEQUENCE_TAG, 255>>     \* passes both from_der checks
IntDer == <<2>>                      \* no SEQUENCE tag: a key, not a Cert

Items ==
    { pem_encode(Pem("CERTIFICATE", CertDer))[1],
      pem_encode(Pem("CERTIFICATE", IntDer))[1],
      pem_encode(Pem("PRIVATE KEY", CertDer))[1],
      pem_encode(Pem("PRIVATE KEY", <<>>))[1],
      pem_encode(Pem("RSA PRIVATE KEY", IntDer))[1],
      pem_encode(Pem("X509 CRL", CertDer))[1],
      Block("CERTIFICATE", "CERTIFICATE", <<12>>),
      Raw(SEQUENCE_TAG),
      Raw(10) }

Buffers == UNION {[1..n -> Items] : n \in 0..MaxItems}

(***************************************************************************)
(* cert.rs                                                                 *)
(***************************************************************************)
MsgNotDerCert == "not a DER-encoded certificate"
MsgManyCerts == "PEM file contains {} certificates"
MsgNoCertEntries == "PEM file contains {} entries, but no certificates"
MsgLooksLikeDer == "PEM file looks like a DER file"
MsgNoCerts == "no certificates found in a PEM file"
MsgEmptyKey == "empty private key"
MsgManyKeys == "PEM file contains {} private keys"
MsgNoKeyEntries == "PEM file contains {} entries, but no private keys"
MsgNoKeys == "no private keys found in a PEM file"
MsgPairCount == "PEM file should contain certificate and private key entries, got {} entries"

CertTags == {"CERTIFICATE"}
KeyTags == {"PRIVATE KEY", "RSA PRIVATE KEY"}

Cert_looks_like_der(bytes) == Len(bytes) > 0 /\ bytes[1] = SEQUENCE_TAG

Cert_from_der(cert_der) ==
    IF ~Cert_looks_like_der(cert_der) THEN Err(MsgNotDerCert) ELSE Ok(cert_der)

\* .flat_map(..).collect::<Result<Vec<_>, _>>()?: the first Err, else all the Oks
Collect(results) ==
    IF \E i \in 1..Len(results) : ~results[i].ok
    THEN Err(results[CHOOSE i \in 1..Len(results) :
                        /\ ~results[i].ok
                        /\ \A j \in 1..(i - 1) : results[j].ok].err)
    ELSE Ok([i \in 1..Len(results) |-> results[i].val])

\* Cert::from_pem taking the entry count for the number of certificates.
Cert_from_pem_counts_entries(cert_der_pem) ==
    LET pem == parse_many(cert_der_pem)
        count == Len(pem)
        tagged == SelectSeq(pem, LAMBDA p : p.tag = "CERTIFICATE")
        certs == Collect([i \in 1..Len(tagged) |-> Cert_from_der(tagged[i].contents)])
    IN  IF ~certs.ok THEN Err(certs.err)
        ELSE IF Len(certs.val) = 1 /\ count = 1 THEN Ok(certs.val[1])
        ELSE IF count > 1 THEN Err(MsgManyCerts)
        ELSE IF count # 0 THEN Err(MsgNoCertEntries)
        ELSE IF Cert_looks_like_der(as_ref(cert_der_pem)) THEN Err(MsgLooksLikeDer)
        ELSE Err(MsgNoCerts)

Cert_from_pem(cert_der_pem) ==
    LET pem == parse_many(cert_der_pem)
        count == Len(pem)
        tagged == SelectSeq(pem, LAMBDA p : p.tag = "CERTIFICATE")
        certs == Collect([i \in 1..Len(tagged) |-> Cert_from_der(tagged[i].contents)])
    IN  IF ~certs.ok THEN Err(certs.err)
        ELSE IF Len(certs.val) = 1 THEN Ok(certs.val[1])
        ELSE IF Len(certs.val) > 1 THEN Err(MsgManyCerts)
        ELSE IF count # 0 THEN Err(MsgNoCertEntries)
        ELSE IF Cert_looks_like_der(as_ref(cert_der_pem)) THEN Err(MsgLooksLikeDer)
        ELSE Err(MsgNoCerts)

\* Cert::to_pem writing the tag of a certificate request.
Cert_to_pem_wrong_tag(self) == pem_encode(Pem("CERTIFICATE REQUEST", self))

Cert_to_pem(self) == pem_encode(Pem("CERTIFICATE", self))

PrivateKey_looks_like_der(bytes) == Len(bytes) > 0 /\ bytes[1] = SEQUENCE_TAG

PrivateKey_from_der(key_der) ==
    IF Len(key_der) = 0 THEN Err(MsgEmptyKey) ELSE Ok(key_der)

\* PrivateKey::from_pem sniffing for DER before it looks at the entry count.
PrivateKey_from_pem_sniffs_first(key_pem) ==
    LET pem == parse_many(key_pem)
        count == Len(pem)
        tagged == SelectSeq(pem, LAMBDA p : p.tag \in {"PRIVATE KEY", "RSA PRIVATE KEY"})
        keys == Collect([i \in 1..Len(tagged) |-> PrivateKey_from_der(tagged[i].contents)])
    IN  IF ~keys.ok THEN Err(keys.err)
        ELSE IF Len(keys.val) = 1 THEN Ok(keys.val[1])
        ELSE IF Len(keys.val) > 1 THEN Err(MsgManyKeys)
        ELSE IF PrivateKey_looks_like_der(as_ref(key_pem)) THEN Err(MsgLooksLikeDer)
        ELSE IF count # 0 THEN Err(MsgNoKeyEntries)
        ELSE Err(MsgNoKeys)

PrivateKey_from_pem(key_pem) ==
    LET pem == parse_many(key_pem)
        count == Len(pem)
        tagged == SelectSeq(pem, LAMBDA p : p.tag \in {"PRIVATE KEY", "RSA PRIVATE KEY"})
        keys == Collect([i \in 1..Len(tagged) |-> PrivateKey_from_der(tagged[i].contents)])
    IN  IF ~keys.ok THEN Err(keys.err)
        ELSE IF Len(keys.val) = 1 THEN Ok(keys.val[1])
        ELSE IF Len(keys.val) > 1 THEN Err(MsgManyKeys)
        ELSE IF count # 0 THEN Err(MsgNoKeyEntries)
        ELSE IF PrivateKey_looks_like_der(as_ref(key_pem)) THEN Err(MsgLooksLikeDer)
        ELSE Err(MsgNoKeys)

PrivateKey_to_pem_incorrect(self) == pem_encode(Pem("RSA PRIVATE KEY", self))

\* pem_to_cert_key_pair without the check of the entry count.
pem_to_cert_key_pair_unchecked(pem) ==
    LET cert == Cert_from_pem(pem)
        key == PrivateKey_from_pem(pem)
    IN  IF ~cert.ok THEN Err(cert.err)
        ELSE IF ~key.ok THEN Err(key.err)
        ELSE Ok(<<cert.val, key.val>>)

pem_to_cert_key_pair(pem) ==
    LET entries == parse_many(pem)
        cert == Cert_from_pem(pem)
        key == PrivateKey_from_pem(pem)
    IN  IF Len(entries) # 2 THEN Err(MsgPairCount)
        ELSE IF ~cert.ok THEN Err(cert.err)
        ELSE IF ~key.ok THEN Err(key.err)
        ELSE Ok(<<cert.val, key.val>>)

(***************************************************************************)
(* SpecPem: a caller of cert.rs.                                           *)
(***************************************************************************)
Input == [kind |-> "input", val |-> <<>>]
Encoded(kind, v) == [kind |-> kind, val |-> v]
NoRes == [kind |-> "none", ok |-> FALSE, val |-> <<>>, err |-> ""]
Res(kind, r) == [kind |-> kind, ok |-> r.ok, val |-> r.val, err |-> r.err]

InitPem ==
    /\ \/ buf \in Buffers /\ der = <<>>
       \/ buf = <<>> /\ der \in DerInputs
    /\ res = NoRes
    /\ op = "none"
    /\ src = Input
    /\ phase = "builder"
    /\ config = [alpn_protocols |-> <<>>, verifier |-> "WebPKIVerifier", root_store |-> <<>>]
    /\ verify_hostname = TRUE
    /\ disabled = FALSE
    /\ added = <<>>
    /\ call = [name |-> "builder", ok |-> TRUE]
    /\ acceptor = "builder"
    /\ fut = "None"
    /\ session = [side |-> "none", dns_name |-> <<>>]
    /\ bridge = [present |-> FALSE, delay |-> 0, wake |-> "none"]
    /\ polls = 0
    /\ out = [poll |-> "none", ok |-> FALSE, err |-> ""]
    /\ step = "none"
    /\ req = [call |-> "none", domain |-> <<>>, delay |-> 0]

CallCertFromDer ==
    /\ res' = Res("cert", Cert_from_der(der))
    /\ op' = "Cert::from_der"
    /\ UNCHANGED <<buf, der, src>>
    /\ UNCHANGED builderVars
    /\ UNCHANGED futVars

CallCertFromPem ==
    /\ res' = Res("cert", Cert_from_pem(buf))
    /\ op' = "Cert::from_pem"
    /\ UNCHANGED <<buf, der, src>>
    /\ UNCHANGED builderVars
    /\ UNCHANGED futVars

CallCertToPem ==
    /\ res.kind = "cert" /\ res.ok
    /\ buf' = Cert_to_pem(res.val)
    /\ src' = Encoded("cert", res.val)
    /\ op' = "Cert::to_pem"
    /\ UNCHANGED <<der, res>>
    /\ UNCHANGED builderVars
    /\ UNCHANGED futVars

CallKeyFromDer ==
    /\ res' = Res("key", PrivateKey_from_der(der))
    /\ op' = "PrivateKey::from_der"
    /\ UNCHANGED <<buf, der, src>>
    /\ UNCHANGED builderVars
    /\ UNCHANGED futVars

CallKeyFromPem ==
    /\ res' = Res("key", PrivateKey_from_pem(buf))
    /\ op' = "PrivateKey::from_pem"
    /\ UNCHANGED <<buf, der, src>>
    /\ UNCHANGED builderVars
    /\ UNCHANGED futVars

CallKeyToPemIncorrect ==
    /\ res.kind = "key" /\ res.ok
    /\ buf' = PrivateKey_to_pem_incorrect(res.val)
    /\ src' = Encoded("key", res.val)
    /\ op' = "PrivateKey::to_pem_incorrect"
    /\ UNCHANGED <<der, res>>
    /\ UNCHANGED builderVars
    /\ UNCHANGED futVars

CallPemToCertKeyPair ==
    /\ res' = Res("pair", pem_to_cert_key_pair(buf))
    /\ op' = "pem_to_cert_key_pair"
    /\ UNCHANGED <<buf, der, src>>
    /\ UNCHANGED builderVars
    /\ UNCHANGED futVars

NextPem ==
    \/ CallCertFromDer
    \/ CallCertFromPem
    \/ CallCertToPem
    \/ CallKeyFromDer
    \/ CallKeyFromPem
    \/ CallKeyToPemIncorrect
    \/ CallPemToCertKeyPair

SpecPem == InitPem /\ [][NextPem]_vars

(***************************************************************************)
(* Properties of cert.rs, checked under SpecPem.                           *)
(***************************************************************************)
\* The entries of a buffer with one of the tags, as pem::parse_many gives them.
Tagged(buffer, tags) == SelectSeq(parse_many(buffer), LAMBDA p : p.tag \in tags)

\* C4 as stated: Cert::from_pem of a buffer with exactly one CERTIFICATE
\* entry succeeds and returns that entry's contents, whatever the contents
\* and the other entries are.
C4_OneCertificateParses_AsStated ==
    (op = "Cert::from_pem" /\ Len(Tagged(buf, CertTags)) = 1)
        => (res.ok /\ res.val = Tagged(buf, CertTags)[1].contents)

\* C4 amended: Cert::from_pem of a buffer with exactly one CERTIFICATE entry
\* whose contents start with 0x30 succeeds and returns that entry's contents,
\* whatever the other entries are.
C4_OneCertificateParses ==
    (op = "Cert::from_pem" /\ Len(Tagged(buf, CertTags)) = 1)
        => LET contents == Tagged(buf, CertTags)[1].contents
           IN  (Len(contents) > 0 /\ contents[1] = SEQUENCE_TAG)
                  => (res.ok /\ res.val = contents)

C4_Witness ==
    /\ op = "Cert::from_pem"
    /\ Len(Tagged(buf, CertTags)) = 1
    /\ Len(parse_many(buf)) = 3
    /\ res.ok
    /\ res.val = CertDer

\* The diagnosis the four-way priority picks for a buffer.
Diagnosis(buffer, tags, many, none_tagged, nothing) ==
    IF Len(Tagged(buffer, tags)) > 1 THEN many
    ELSE IF Len(Tagged(buffer, tags)) = 0 /\ Len(parse_many(buffer)) > 0 THEN none_tagged
    ELSE IF Len(parse_many(buffer)) = 0 /\ as_ref(buffer) # <<>> /\ as_ref(buffer)[1] = SEQUENCE_TAG
    THEN MsgLooksLikeDer
    ELSE nothing

CertDiagnosis(buffer) == Diagnosis(buffer, CertTags, MsgManyCerts, MsgNoCertEntries, MsgNoCerts)
KeyDiagnosis(buffer) == Diagnosis(buffer, KeyTags, MsgManyKeys, MsgNoKeyEntries, MsgNoKeys)

\* C5 as stated: whenever from_pem does not find exactly one matching entry
\* it fails with the diagnosis the four-way priority picks, for Cert and for
\* PrivateKey alike.
C5_DiagnosisPriority_AsStated ==
    /\ (op = "Cert::from_pem" /\ Len(Tagged(buf, CertTags)) # 1)
          => (~res.ok /\ res.err = CertDiagnosis(buf))
    /\ (op = "PrivateKey::from_pem" /\ Len(Tagged(buf, KeyTags)) # 1)
          => (~res.ok /\ res.err = KeyDiagnosis(buf))

\* C5 amended: when from_pem does not find exactly one matching entry and
\* every matching entry passes from_der (a certificate starts with 0x30, a
\* key is not empty), it fails with the diagnosis the four-way priority
\* picks; when some matching entry does not pass from_der, it fails with
\* from_der's error instead.
C5_DiagnosisPriority ==
    /\ (op = "Cert::from_pem" /\ Len(Tagged(buf, CertTags)) # 1)
          => /\ ~res.ok
             /\ res.err =
                  IF \A i \in 1..Len(Tagged(buf, CertTags)) :
                        /\ Len(Tagged(buf, CertTags)[i].contents) > 0
                        /\ Tagged(buf, CertTags)[i].contents[1] = SEQUENCE_TAG
                  THEN CertDiagnosis(buf)
                  ELSE MsgNotDerCert
    /\ (op = "PrivateKey::from_pem" /\ Len(Tagged(buf, KeyTags)) # 1)
          => /\ ~res.ok
             /\ res.err =
                  IF \A i \in 1..Len(Tagged(buf, KeyTags)) :
                        Len(Tagged(buf, KeyTags)[i].contents) > 0
                  THEN KeyDiagnosis(buf)
                  ELSE MsgEmptyKey

C5_Witness ==
    /\ op = "PrivateKey::from_pem"
    /\ Len(Tagged(buf, KeyTags)) = 0
    /\ Len(parse_many(buf)) > 0
    /\ as_ref(buf) = <<SEQUENCE_TAG>>
    /\ res.err = MsgNoKeyEntries

\* C6: from_pem(to_pem(c)) = c for every Cert c, and
\* from_pem(to_pem_incorrect(k)) = k for every PrivateKey k.
C6_PemRoundTrip ==
    /\ (op = "Cert::from_pem" /\ src.kind = "cert") => (res.ok /\ res.val = src.val)
    /\ (op = "PrivateKey::from_pem" /\ src.kind = "key") => (res.ok /\ res.val = src.val)

C6_Witness ==
    /\ op = "Cert::from_pem"
    /\ src.kind = "cert"
    /\ Len(src.val) = MaxDerLen
    /\ res.ok

\* C7: pem_to_cert_key_pair fails when the buffer does not hold exactly 2
\* entries; when it succeeds the buffer holds exactly 2 entries, Cert::from_pem
\* and PrivateKey::from_pem both succeed on the whole buffer, and the pair is
\* their two results.
C7_PairNeedsTwoEntries ==
    op = "pem_to_cert_key_pair"
        => /\ Len(parse_many(buf)) # 2 => ~res.ok
           /\ res.ok => /\ Len(parse_many(buf)) = 2
                        /\ Cert_from_pem(buf).ok
                        /\ PrivateKey_from_pem(buf).ok
                        /\ res.val = <<Cert_from_pem(buf).val, PrivateKey_from_pem(buf).val>>

C7_Witness ==
    /\ op = "pem_to_cert_key_pair"
    /\ Len(parse_many(buf)) = 3
    /\ Cert_from_pem(buf).ok
    /\ PrivateKey_from_pem(buf).ok
    /\ ~res.ok

(***************************************************************************)
(* lib.rs: TlsConnectorBuilder, TlsConnector, TlsAcceptorBuilder,          *)
(* TlsAcceptor.                                                            *)
(***************************************************************************)
\* webpki_roots::TLS_SERVER_ROOTS, the bundled trust anchors
TLS_SERVER_ROOTS == <<"webpki-root-1", "webpki-root-2">>

\* Certificates a caller may hand to add_root_certificate; webpki parses a
\* trust anchor out of the well-formed ones only.
RootInputs ==
    { [name |-> "ca-1", well_formed |-> TRUE],
      [name |-> "ca-2", well_formed |-> TRUE],
      [name |-> "garbage", well_formed |-> FALSE] }

AlpnInputs == { <<>>, <<"h2">>, <<"h2", "http/1.1">> }

\* rustls::RootCertStore::add: push the trust anchor, or fail before pushing
RootCertStore_add(root_store, cert) ==
    IF cert.well_formed
    THEN [ok |-> TRUE, val |-> Append(root_store, cert.name), err |-> ""]
    ELSE [ok |-> FALSE, val |-> root_store, err |-> "BadDER"]

\* rustls::ClientConfig::new()
ClientConfig_new ==
    [alpn_protocols |-> <<>>, verifier |-> "WebPKIVerifier", root_store |-> <<>>]

Called(name, ok) == [name |-> name, ok |-> ok]

\* TlsConnector::builder()
builder ==
    /\ phase = "builder"
    /\ config = ClientConfig_new
    /\ verify_hostname = TRUE
    /\ disabled = FALSE
    /\ added = <<>>
    /\ call = Called("builder", TRUE)

set_alpn_protocols(protocols) ==
    /\ phase = "builder"
    /\ config' = [config EXCEPT !.alpn_protocols = protocols]
    /\ call' = Called("set_alpn_protocols", TRUE)
    /\ UNCHANGED <<phase, verify_hostname, disabled, added, acceptor>>
    /\ UNCHANGED futVars
    /\ UNCHANGED pemVars

\* set_verify_hostname without the check of the flag on the true branch.
set_verify_hostname_reenables(verify) ==
    /\ phase = "builder"
    /\ IF ~verify
       THEN /\ config' = [config EXCEPT !.verifier = "NoCertificateVerifier"]
            /\ verify_hostname' = FALSE
            /\ disabled' = TRUE
            /\ call' = Called("set_verify_hostname(false)", TRUE)
       ELSE /\ call' = Called("set_verify_hostname(true)", TRUE)
            /\ verify_hostname' = TRUE
            /\ UNCHANGED <<config, disabled>>
    /\ UNCHANGED <<phase, added, acceptor>>
    /\ UNCHANGED futVars
    /\ UNCHANGED pemVars

\* set_verify_hostname(false) installing the verifier without clearing the flag.
set_verify_hostname_keeps_flag(verify) ==
    /\ phase = "builder"
    /\ IF ~verify
       THEN /\ config' = [config EXCEPT !.verifier = "NoCertificateVerifier"]
            /\ disabled' = TRUE
            /\ call' = Called("set_verify_hostname(false)", TRUE)
            /\ UNCHANGED verify_hostname
       ELSE /\ call' = Called("set_verify_hostname(true)", verify_hostname)
            /\ UNCHANGED <<config, verify_hostname, disabled>>
    /\ UNCHANGED <<phase, added, acceptor>>
    /\ UNCHANGED futVars
    /\ UNCHANGED pemVars

set_verify_hostname(verify) ==
    /\ phase = "builder"
    /\ IF ~verify
       THEN /\ config' = [config EXCEPT !.verifier = "NoCertificateVerifier"]
            /\ verify_hostname' = FALSE
            /\ disabled' = TRUE
            /\ call' = Called("set_verify_hostname(false)", TRUE)
       ELSE /\ call' = Called("set_verify_hostname(true)", verify_hostname)
            /\ UNCHANGED <<config, verify_hostname, disabled>>
    /\ UNCHANGED <<phase, added, acceptor>>
    /\ UNCHANGED futVars
    /\ UNCHANGED pemVars

add_root_certificate(cert) ==
    /\ phase = "builder"
    /\ Len(config.root_store) < MaxRoots
    /\ LET r == RootCertStore_add(config.root_store, cert)
       IN  /\ config' = [config EXCEPT !.root_store = r.val]
           /\ added' = IF r.ok THEN Append(added, cert.name) ELSE added
           /\ call' = Called("add_root_certificate", r.ok)
    /\ UNCHANGED <<phase, verify_hostname, disabled, acceptor>>
    /\ UNCHANGED futVars
    /\ UNCHANGED pemVars

\* build() adding the bundled roots whatever the trust store holds.
build_always_adds_defaults ==
    /\ phase = "builder"
    /\ config' = [config EXCEPT !.root_store = config.root_store \o TLS_SERVER_ROOTS]
    /\ phase' = "connector"
    /\ call' = Called("build", TRUE)
    /\ UNCHANGED <<verify_hostname, disabled, added, acceptor>>
    /\ UNCHANGED futVars
    /\ UNCHANGED pemVars

build ==
    /\ phase = "builder"
    /\ config' = IF config.root_store = <<>>
                 THEN [config EXCEPT !.root_store = config.root_store \o TLS_SERVER_ROOTS]
                 ELSE config
    /\ phase' = "connector"
    /\ call' = Called("build", TRUE)
    /\ UNCHANGED <<verify_hostname, disabled, added, acceptor>>
    /\ UNCHANGED futVars
    /\ UNCHANGED pemVars

\* TlsAcceptorBuilder::build
acceptor_build ==
    /\ acceptor = "builder"
    /\ acceptor' = "acceptor"
    /\ UNCHANGED <<phase, config, verify_hostname, disabled, added, call>>
    /\ UNCHANGED futVars
    /\ UNCHANGED pemVars

(***************************************************************************)
(* connect / accept and the future they return.                            *)
(***************************************************************************)
DomainChars == {"a", "-", ".", " "}
Domains == UNION {[1..n -> DomainChars] : n \in 0..MaxDomainLen}

\* webpki::DNSNameRef::try_from_ascii_str: letters, hyphens and dots; no
\* empty label but a final one; no label starts or ends with a hyphen.
DNSNameRef_try_from_ascii_str(domain) ==
    IF /\ Len(domain) > 0
       /\ \A i \in 1..Len(domain) :
            /\ domain[i] \in {"a", "-", "."}
            /\ domain[i] = "." => (i > 1 /\ domain[i - 1] \notin {".", "-"})
            /\ domain[i] = "-" => (i > 1 /\ domain[i - 1] # ".")
       /\ domain[Len(domain)] # "-"
    THEN Ok(domain)
    ELSE Err("InvalidDNSNameError")

NoSession == [side |-> "none", dns_name |-> <<>>]
NoBridge == [present |-> FALSE, delay |-> 0, wake |-> "none"]
NotPolled == [poll |-> "none", ok |-> FALSE, err |-> ""]
Pending == [poll |-> "Pending", ok |-> FALSE, err |-> ""]
ReadyOk == [poll |-> "Ready", ok |-> TRUE, err |-> ""]
ReadyErr(e) == [poll |-> "Ready", ok |-> FALSE, err |-> e]
NoReq == [call |-> "none", domain |-> <<>>, delay |-> 0]

\* AsyncIoAsSyncIo::new(stream); the transport is ready after delay turns
AsyncIoAsSyncIo_new(delay) == [present |-> TRUE, delay |-> delay, wake |-> "none"]

\* connect building the session and the bridge before it validates the name.
connect_validates_last(domain, delay) ==
    /\ phase = "connector"
    /\ fut = "None"
    /\ LET dns_name == DNSNameRef_try_from_ascii_str(domain)
       IN  /\ session' = [side |-> "client", dns_name |-> domain]
           /\ bridge' = AsyncIoAsSyncIo_new(delay)
           /\ fut' = IF ~dns_name.ok THEN "ErrFuture" ELSE "MidHandshake"
    /\ polls' = 0
    /\ out' = NotPolled
    /\ step' = "none"
    /\ req' = [call |-> "connect", domain |-> domain, delay |-> delay]
    /\ UNCHANGED builderVars
    /\ UNCHANGED pemVars

\* The model follows one future: the connections of a connector share
\* nothing but its immutable configuration.
connect(domain, delay) ==
    /\ phase = "connector"
    /\ fut = "None"
    /\ LET dns_name == DNSNameRef_try_from_ascii_str(domain)
       IN  IF ~dns_name.ok
           THEN /\ fut' = "ErrFuture"
                /\ session' = NoSession
                /\ bridge' = NoBridge
           ELSE /\ fut' = "MidHandshake"
                /\ session' = [side |-> "client", dns_name |-> dns_name.val]
                /\ bridge' = AsyncIoAsSyncIo_new(delay)
    /\ polls' = 0
    /\ out' = NotPolled
    /\ step' = "none"
    /\ req' = [call |-> "connect", domain |-> domain, delay |-> delay]
    /\ UNCHANGED builderVars
    /\ UNCHANGED pemVars

accept(delay) ==
    /\ acceptor = "acceptor"
    /\ fut = "None"
    /\ fut' = "MidHandshake"
    /\ session' = [side |-> "server", dns_name |-> <<>>]
    /\ bridge' = AsyncIoAsSyncIo_new(delay)
    /\ polls' = 0
    /\ out' = NotPolled
    /\ step' = "none"
    /\ req' = [call |-> "accept", domain |-> <<>>, delay |-> delay]
    /\ UNCHANGED builderVars
    /\ UNCHANGED pemVars

\* Polling Box::pin(async { Err(e) })
poll_err_future ==
    /\ fut = "ErrFuture"
    /\ fut' = "ErrReturned"
    /\ polls' = polls + 1
    /\ out' = ReadyErr("InvalidDNSNameError")
    /\ UNCHANGED <<session, bridge, step, req>>
    /\ UNCHANGED builderVars
    /\ UNCHANGED pemVars

\* A bridge that reports would-block before it has polled the transport.
Bridge_io_blocks_first(b, transport) ==
    IF b.delay > 0 \/ b.wake = "none" THEN "WouldBlock"
    ELSE IF transport = "error" THEN "TransportError"
    ELSE "Ready"

\* The bridge's read / write: one poll of the transport's readiness.
Bridge_io(b, transport) ==
    IF b.delay > 0 THEN "WouldBlock"
    ELSE IF transport = "error" THEN "TransportError"
    ELSE "Ready"

\* The engine's "continue handshake" step through the bridge.
engine_step(io, engine) ==
    IF io = "WouldBlock" THEN "WouldBlock"
    ELSE IF io = "TransportError" THEN "TransportError"
    ELSE IF engine = "error" THEN "HandshakeError"
    ELSE "Complete"

\* HandshakeFuture::poll handing every error of the step to the caller.
HandshakeFuture_poll_returns_would_block(transport, engine) ==
    /\ fut = "MidHandshake"
    /\ polls = 0 \/ bridge.wake = "signaled"
    /\ step' = engine_step(Bridge_io(bridge, transport), engine)
    /\ IF step' = "Complete"
       THEN /\ fut' = "Done"
            /\ out' = ReadyOk
       ELSE /\ fut' = "Failed"
            /\ out' = ReadyErr(step')
    /\ bridge' = [bridge EXCEPT !.wake = "none"]
    /\ polls' = polls + 1
    /\ UNCHANGED <<session, req>>
    /\ UNCHANGED builderVars
    /\ UNCHANGED pemVars

\* HandshakeFuture::poll
HandshakeFuture_poll(transport, engine) ==
    /\ fut = "MidHandshake"
    /\ polls = 0 \/ bridge.wake = "signaled"
    /\ step' = engine_step(Bridge_io(bridge, transport), engine)
    /\ IF step' = "Complete"
       THEN /\ fut' = "Done"
            /\ out' = ReadyOk
            /\ bridge' = [bridge EXCEPT !.wake = "none"]
       ELSE IF step' = "WouldBlock"
       THEN /\ fut' = "MidHandshake"
            /\ out' = Pending
            /\ bridge' = [bridge EXCEPT !.wake = "registered"]
       ELSE /\ fut' = "Failed"
            /\ out' = ReadyErr(step')
            /\ bridge' = [bridge EXCEPT !.wake = "none"]
    /\ polls' = polls + 1
    /\ UNCHANGED <<session, req>>
    /\ UNCHANGED builderVars
    /\ UNCHANGED pemVars

\* A scheduler turn: the transport signals the registered wake.
transport_turn ==
    /\ fut = "MidHandshake"
    /\ bridge.wake = "registered"
    /\ bridge' = [bridge EXCEPT !.wake = "signaled",
                                !.delay = IF @ > 0 THEN @ - 1 ELSE 0]
    /\ UNCHANGED <<fut, session, polls, out, step, req>>
    /\ UNCHANGED builderVars
    /\ UNCHANGED pemVars

NoFuture ==
    /\ fut = "None"
    /\ session = NoSession
    /\ bridge = NoBridge
    /\ polls = 0
    /\ out = NotPolled
    /\ step = "none"
    /\ req = NoReq

NoPem ==
    /\ buf = <<>>
    /\ der = <<>>
    /\ res = NoRes
    /\ op = "none"
    /\ src = Input

Init ==
    /\ builder
    /\ acceptor = "builder"
    /\ NoFuture
    /\ NoPem

Next ==
    \/ \E protocols \in AlpnInputs : set_alpn_protocols(protocols)
    \/ \E verify \in BOOLEAN : set_verify_hostname(verify)
    \/ \E cert \in RootInputs : add_root_certificate(cert)
    \/ build
    \/ acceptor_build
    \/ \E domain \in Domains, delay \in 0..MaxDelay : connect(domain, delay)
    \/ \E delay \in 0..MaxDelay : accept(delay)
    \/ poll_err_future
    \/ \E transport \in {"ok", "error"}, engine \in {"complete", "error"} :
          HandshakeFuture_poll(transport, engine)
    \/ transport_turn

Spec == Init /\ [][Next]_vars

(***************************************************************************)
(* Properties of the builder, connect / accept and the future, checked     *)
(* under Spec.                                                             *)
(***************************************************************************)
\* C1: set_verify_hostname(true) fails exactly when set_verify_hostname(false)
\* was called before on the builder, and verify_hostname never goes from
\* false back to true.
C1_VerifyHostnameLatch ==
    /\ [](call.name = "set_verify_hostname(true)" => (call.ok <=> ~disabled))
    /\ [][~verify_hostname => ~verify_hostname']_vars

C1_Witness ==
    /\ call.name = "set_verify_hostname(true)"
    /\ disabled
    /\ ~call.ok
    /\ ~verify_hostname

\* C9: a fresh builder verifies host names with the default verifier, and
\* the permissive verifier is installed iff verify_hostname is false iff
\* set_verify_hostname(false) was called.
C9_PermissiveVerifierIsOptIn ==
    /\ call.name = "builder"
          => (verify_hostname /\ config.verifier = "WebPKIVerifier")
    /\ config.verifier = "NoCertificateVerifier" <=> ~verify_hostname
    /\ ~verify_hostname <=> disabled

C9_Witness ==
    /\ call.name = "add_root_certificate"
    /\ config.alpn_protocols # <<>>
    /\ disabled
    /\ config.verifier = "NoCertificateVerifier"

\* C10: the builder's trust store is the certificates added so far (a failed
\* add changes nothing), and the built connector's trust store is the bundled
\* roots if none was added, the added certificates alone otherwise.
C10_DefaultRootsOnlyWhenEmpty ==
    /\ phase = "builder" => config.root_store = added
    /\ phase = "connector"
          => config.root_store = IF added = <<>> THEN TLS_SERVER_ROOTS ELSE added

C10_Witness ==
    /\ phase = "connector"
    /\ added = <<>>
    /\ config.root_store = TLS_SERVER_ROOTS

\* C8: connect with a malformed name makes no session and no bridge and a
\* future that fails on its first poll without ever being MidHandshake;
\* connect with a well-formed name and accept return a MidHandshake future
\* over a fresh session and bridge.
C8_ConnectValidatesNameFirst ==
    /\ (req.call = "connect" /\ ~DNSNameRef_try_from_ascii_str(req.domain).ok)
          => /\ session = NoSession
             /\ bridge = NoBridge
             /\ fut \in {"ErrFuture", "ErrReturned"}
             /\ polls = 0 => fut = "ErrFuture"
             /\ polls >= 1 => (polls = 1 /\ out.poll = "Ready" /\ ~out.ok)
    /\ (req.call = "connect" /\ DNSNameRef_try_from_ascii_str(req.domain).ok)
          => /\ session = [side |-> "client", dns_name |-> req.domain]
             /\ bridge.present
             /\ fut \in {"MidHandshake", "Done", "Failed"}
             /\ polls = 0 => (fut = "MidHandshake" /\ bridge = AsyncIoAsSyncIo_new(req.delay))
    /\ req.call = "accept"
          => /\ session.side = "server"
             /\ bridge.present
             /\ fut \in {"MidHandshake", "Done", "Failed"}
             /\ polls = 0 => (fut = "MidHandshake" /\ bridge = AsyncIoAsSyncIo_new(req.delay))

C8_Witness ==
    /\ req.call = "connect"
    /\ ~DNSNameRef_try_from_ascii_str(req.domain).ok
    /\ polls = 1
    /\ out = ReadyErr("InvalidDNSNameError")

\* C2: over a transport that is not ready for req.delay turns the handshake
\* future is polled exactly req.delay + 1 times: each of the first req.delay
\* polls returns Pending with a wake registered, the next one resolves.
C2_PollsUntilReady ==
    fut \in {"MidHandshake", "Done", "Failed"}
        => /\ polls <= req.delay + 1
           /\ (polls >= 1 /\ polls <= req.delay)
                 => /\ fut = "MidHandshake"
                    /\ out = Pending
                    /\ bridge.wake \in {"registered", "signaled"}
           /\ polls = req.delay + 1 <=> fut \in {"Done", "Failed"}
           /\ fut \in {"Done", "Failed"} => out.poll = "Ready"

C2_Witness ==
    /\ fut = "Done"
    /\ req.delay >= 2
    /\ polls = req.delay + 1
    /\ out = ReadyOk

\* C3: a future resolves with a stream or with a transport, handshake or
\* name error, never with would-block; a step that reports would-block
\* leaves the future pending.
C3_WouldBlockStaysInside ==
    /\ out.poll = "Ready"
          => \/ out.ok /\ fut = "Done"
             \/ /\ ~out.ok
                /\ out.err \in {"TransportError", "HandshakeError", "InvalidDNSNameError"}
    /\ step = "WouldBlock" => (out = Pending /\ fut = "MidHandshake")

C3_Witness ==
    /\ step = "WouldBlock"
    /\ out = Pending
    /\ polls >= 2

====
